---- MODULE Spec2Model ----
(***************************************************************************)
(* Forecasting pipeline of the cryptocurrency time-series notebooks        *)
(* (src/unnamed/part_000): load_crypto_data, create_time_series_features,  *)
(* create_sequences, build_lstm_model, train_and_evaluate_model and main.  *)
(*                                                                         *)
(* Python arrays and lists are TLA+ sequences: the element at Python       *)
(* position p is element p+1 of the sequence.  Floating-point values are   *)
(* exact rationals <<numerator, denominator>>.                             *)
(***************************************************************************)
EXTENDS Integers, Sequences, FiniteSets, TLC

VARIABLES
    pc,             \* control position of the running code
    arg,            \* arguments of the function under test (unit specifications)
    files,          \* ../data/processed/<crypto>_processed.csv, per asset
    i,              \* position of main's loop in cryptocurrencies (1-based)
    model_results,  \* main: model_results
    df,             \* train_and_evaluate_model: df
    scaler,         \* train_and_evaluate_model: scaler
    scaled_data,    \* train_and_evaluate_model: scaled_data
    X, y,           \* train_and_evaluate_model: X, y
    split,          \* X_train, X_test, y_train, y_test and the index arrays behind them
    model,          \* train_and_evaluate_model: model
    early_stop,     \* train_and_evaluate_model: early_stop (the EarlyStopping callback)
    epoch,          \* model.fit: number of passes completed
    history,        \* model.fit: history of val_loss (its minimum and where it was first met)
    evalr,          \* y_pred, y_test_inv, y_pred_inv, mse, mae, r2
    disk,           \* ../outputs/*.png and ../models/*.h5 written so far
    stdout,         \* lines printed
    error,          \* the exception that ended the run, or NoError
    log,            \* history: the steps taken, in order
    nextId          \* identity of the next object constructed

vars == <<pc, arg, files, i, model_results, df, scaler, scaled_data, X, y, split,
          model, early_stop, epoch, history, evalr, disk, stdout, error, log, nextId>>

----------------------------------------------------------------------------
(* Python values *)

None == "None"
NoError == "NoError"
EmptyDict == << >>

\* a value that is a DataFrame or None
DataFrame(rows) == [type |-> "DataFrame", rows |-> rows]
PyNone == [type |-> "NoneType", rows |-> << >>]

Min2(a, b) == IF a <= b THEN a ELSE b
Max2(a, b) == IF a >= b THEN a ELSE b
Abs(a) == IF a < 0 THEN -a ELSE a

\* range(n): empty when n <= 0
PyRange(n) == IF n <= 0 THEN {} ELSE 0 .. (n - 1)

\* s[a:b] for 0 <= a, 0 <= b: positions a .. b-1, clipped to the length of s
PySlice(s, a, b) ==
    LET hi == Min2(b, Len(s))
    IN  IF a >= hi THEN << >> ELSE [k \in 1 .. (hi - a) |-> s[a + k]]

\* s[p] for p >= 0 is defined only when p < len(s); otherwise IndexError
InRange(s, p) == p >= 0 /\ p < Len(s)
PyIndex(s, p) == s[p + 1]

----------------------------------------------------------------------------
(* Exact rationals <<n, d>>, d > 0, in lowest terms; a float that is not a  *)
(* number is <<0, 0>> and an infinite one <<1, 0>>                         *)

NaN == <<0, 0>>
Inf == <<1, 0>>

RECURSIVE GCD(_, _)
GCD(a, b) == IF b = 0 THEN a ELSE GCD(b, a % b)

Rat(n, d) ==
    LET s == IF d < 0 THEN -1 ELSE 1
        g == IF n = 0 /\ d = 0 THEN 1 ELSE GCD(Abs(n), Abs(d))
    IN  <<(s * n) \div g, (s * d) \div g>>

RInt(n) == <<n, 1>>
RAdd(a, b) == Rat(a[1] * b[2] + b[1] * a[2], a[2] * b[2])
RSub(a, b) == Rat(a[1] * b[2] - b[1] * a[2], a[2] * b[2])
RMul(a, b) == Rat(a[1] * b[1], a[2] * b[2])
RDiv(a, b) == Rat(a[1] * b[2], a[2] * b[1])      \* b # 0
RLess(a, b) == a[1] * b[2] < b[1] * a[2]
RAbs(a) == <<Abs(a[1]), a[2]>>
RIsZero(a) == a[1] = 0
RCeil(a) == -((-a[1]) \div a[2])                  \* math.ceil / np.ceil
RFloor(a) == a[1] \div a[2]                       \* math.floor / int() of a value >= 0

----------------------------------------------------------------------------
(* create_sequences (3. Sequence Preparation for LSTM) *)

\* the default of the parameter seq_length
seq_length_default == 30

\* variant: the loop stops one iteration early
seq_iterations_short(data, seq_length) == Len(data) - seq_length - 1

\* the argument of range() in the for loop
seq_iterations(data, seq_length) == Len(data) - seq_length

\* the for loop from iteration k on, with the lists X and y built so far;
\* data[k+seq_length] past the end of data raises IndexError
RECURSIVE seq_loop(_, _, _, _, _)
seq_loop(data, seq_length, k, Xs, ys) ==
    IF k \notin PyRange(seq_iterations(data, seq_length))
    THEN [X |-> Xs, y |-> ys, error |-> NoError]
    ELSE IF ~InRange(data, k + seq_length)
    THEN [X |-> Xs, y |-> ys, error |-> "IndexError"]
    ELSE seq_loop(data, seq_length, k + 1,
                  Append(Xs, PySlice(data, k, k + seq_length)),
                  Append(ys, PyIndex(data, k + seq_length)))

\* variant: a series no longer than the window is rejected
create_sequences_strict(data, seq_length) ==
    IF Len(data) <= seq_length
    THEN [X |-> << >>, y |-> << >>, error |-> "ValueError"]
    ELSE seq_loop(data, seq_length, 0, << >>, << >>)

create_sequences(data, seq_length) == seq_loop(data, seq_length, 0, << >>, << >>)

----------------------------------------------------------------------------
(* train_test_split(X, y, test_size=0.2, shuffle=False) *)

test_size == <<1, 5>>

\* np.arange(a, b)
arange(a, b) == IF b <= a THEN << >> ELSE [k \in 1 .. (b - a) |-> a + k - 1]

\* a[idx] for an index array idx
take(a, idx) == [k \in 1 .. Len(idx) |-> PyIndex(a, idx[k])]

\* variant: the test positions are taken from the head of the array
split_indices_head(n_train, n_test) ==
    [train |-> arange(n_test, n_test + n_train), test |-> arange(0, n_test)]

\* shuffle=False: the first n_train positions train, the next n_test positions test
split_indices(n_train, n_test) ==
    [train |-> arange(0, n_train), test |-> arange(n_train, n_train + n_test)]

NoSplit ==
    [X_train |-> << >>, X_test |-> << >>, y_train |-> << >>, y_test |-> << >>,
     train |-> << >>, test |-> << >>, error |-> NoError]

\* variant: every fifth window is held out for the test
train_test_split_strided(Xs, ys) ==
    LET held(k) == k % 5 = 0
        kept(k) == k % 5 # 0
        test == SelectSeq(arange(0, Len(Xs)), held)
        train == SelectSeq(arange(0, Len(Xs)), kept)
    IN  IF Len(ys) # Len(Xs) \/ train = << >>
        THEN [NoSplit EXCEPT !.error = "ValueError"]
        ELSE [X_train |-> take(Xs, train), X_test |-> take(Xs, test),
              y_train |-> take(ys, train), y_test |-> take(ys, test),
              train |-> train, test |-> test, error |-> NoError]

\* variant: arrays of no samples are split into empty parts
train_test_split_lenient(Xs, ys) ==
    LET n_test == RCeil(RMul(test_size, RInt(Len(Xs))))
        idx == split_indices(Max2(Len(Xs) - n_test, 0), Min2(n_test, Len(Xs)))
    IN  [X_train |-> take(Xs, idx.train), X_test |-> take(Xs, idx.test),
         y_train |-> take(ys, idx.train), y_test |-> take(ys, idx.test),
         train |-> idx.train, test |-> idx.test, error |-> NoError]

\* n_test = ceil(test_size * n_samples), n_train = n_samples - n_test;
\* an empty training set is a ValueError
train_test_split(Xs, ys) ==
    LET n_samples == Len(Xs)
        n_test == RCeil(RMul(test_size, RInt(n_samples)))
        n_train == n_samples - n_test
        idx == split_indices(n_train, n_test)
    IN  IF Len(ys) # n_samples \/ n_train <= 0
        THEN [NoSplit EXCEPT !.error = "ValueError"]
        ELSE [X_train |-> take(Xs, idx.train), X_test |-> take(Xs, idx.test),
              y_train |-> take(ys, idx.train), y_test |-> take(ys, idx.test),
              train |-> idx.train, test |-> idx.test, error |-> NoError]


----------------------------------------------------------------------------
(* create_time_series_features (2. Feature Engineering)                    *)
(*                                                                         *)
(* A DataFrame is a sequence of rows in file order; a row is a record of   *)
(* its index label and its columns.  A missing value is NaN.               *)
(* rolling_std_7d holds the sample variance, the square of the standard    *)
(* deviation pandas returns: it is NaN exactly when the deviation is.      *)

rolling_window == 7      \* rolling(window=7)
pct_periods == 7         \* pct_change(periods=7)
lag_periods == 7         \* shift(7)

column(frame, name) == [k \in 1 .. Len(frame) |-> frame[k][name]]

RECURSIVE SumTo(_, _)
SumTo(s, n) == IF n = 0 THEN RInt(0) ELSE RAdd(s[n], SumTo(s, n - 1))
Sum(s) == SumTo(s, Len(s))

\* the w observations ending at position p
window_at(s, p, w) == [k \in 1 .. w |-> s[p - w + 1 + k]]

\* rolling(window=w): NaN until w observations are there (min_periods = w),
\* and wherever the window holds a NaN
window_full(s, p, w) ==
    /\ p >= w - 1
    /\ \A k \in 1 .. w : window_at(s, p, w)[k] # NaN

rolling_mean(s, p, w) ==
    IF ~window_full(s, p, w) THEN NaN ELSE RDiv(Sum(window_at(s, p, w)), RInt(w))

rolling_var(s, p, w) ==
    IF ~window_full(s, p, w) \/ w < 2 THEN NaN
    ELSE LET win == window_at(s, p, w)
             sq == [k \in 1 .. w |-> RMul(win[k], win[k])]
         IN  RDiv(RSub(RMul(RInt(w), Sum(sq)), RMul(Sum(win), Sum(win))),
                  RInt(w * (w - 1)))

\* pct_change fills missing values forward (fill_method='pad') before it divides
RECURSIVE pad_at(_, _)
pad_at(s, p) ==
    IF p < 0 THEN NaN
    ELSE IF s[p + 1] # NaN THEN s[p + 1]
    ELSE pad_at(s, p - 1)

\* pct_change(periods=k): s[p] / s[p-k] - 1; x/0 is inf, 0/0 is NaN
pct_change(s, p, k) ==
    IF p < k THEN NaN
    ELSE LET a == pad_at(s, p)
             b == pad_at(s, p - k)
         IN  IF a = NaN \/ b = NaN THEN NaN
             ELSE IF RIsZero(b) THEN (IF RIsZero(a) THEN NaN ELSE Inf)
             ELSE RSub(RDiv(a, b), RInt(1))

\* shift(k)
shift(s, p, k) == IF p < k THEN NaN ELSE s[p - k + 1]

feature_columns ==
    {"rolling_mean_7d", "rolling_std_7d", "price_change_1d", "price_change_7d",
     "price_lag_1", "price_lag_7"}

\* the six column assignments
add_features(frame) ==
    LET price == column(frame, "price")
    IN  [k \in 1 .. Len(frame) |->
            [index |-> frame[k].index,
             timestamp |-> frame[k].timestamp,
             price |-> frame[k].price,
             rolling_mean_7d |-> rolling_mean(price, k - 1, rolling_window),
             rolling_std_7d |-> rolling_var(price, k - 1, rolling_window),
             price_change_1d |-> pct_change(price, k - 1, 1),
             price_change_7d |-> pct_change(price, k - 1, pct_periods),
             price_lag_1 |-> shift(price, k - 1, 1),
             price_lag_7 |-> shift(price, k - 1, lag_periods)]]

row_complete(row) == \A c \in DOMAIN row \ {"index"} : row[c] # NaN

\* variant: no row is dropped
dropna_none(frame) == frame

\* df.dropna(): the rows without a NaN in any column, in their order
dropna(frame) == SelectSeq(frame, row_complete)

create_time_series_features(frame) == dropna(add_features(frame))

----------------------------------------------------------------------------
(* build_lstm_model, EarlyStopping and model.fit (5. Model Training)       *)
(*                                                                         *)
(* The weights of a model are named by the pass that produced them: 0 for  *)
(* the initial weights, e for the weights after pass e (1-based).          *)

epochs == 100        \* model.fit(epochs=100)
patience == 10       \* EarlyStopping(patience=10)
validation_split == <<1, 5>>

NoWeights == -1
NoModel == [id |-> 0, weights |-> NoWeights, stop_training |-> FALSE]
NoCallback ==
    [wait |-> 0, best |-> Inf, best_weights |-> NoWeights, best_epoch |-> 0,
     stopped_epoch |-> 0]
NoHistory == [min_val_loss |-> Inf, min_epoch |-> 0]

\* Sequential([...]) and model.compile(...): a new model with its initial weights
build_lstm_model(id) == [id |-> id, weights |-> 0, stop_training |-> FALSE]

\* EarlyStopping(monitor='val_loss', patience=10, restore_best_weights=True),
\* as on_train_begin leaves it
EarlyStopping == NoCallback

\* variant: restore_best_weights=False
restore_none(m, es) == m

\* model.set_weights(self.best_weights) under restore_best_weights=True
restore_best(m, es) ==
    IF es.best_weights # NoWeights THEN [m EXCEPT !.weights = es.best_weights] ELSE m

patience_spent(es) == es.wait >= patience

\* EarlyStopping.on_epoch_end(epoch, logs) with logs['val_loss'] = current,
\* ep the 0-based number of the pass just made
on_epoch_end(m, es, ep, current) ==
    LET es1 == IF es.best_weights = NoWeights
               THEN [es EXCEPT !.best_weights = m.weights] ELSE es
        es2 == [es1 EXCEPT !.wait = @ + 1]
        es3 == IF RLess(current, es2.best)
               THEN [es2 EXCEPT !.best = current, !.best_epoch = ep,
                                !.best_weights = m.weights, !.wait = 0]
               ELSE es2
    IN  IF patience_spent(es3) /\ ep > 0
        THEN [model |-> restore_best([m EXCEPT !.stop_training = TRUE], es3),
              early_stop |-> [es3 EXCEPT !.stopped_epoch = ep]]
        ELSE [model |-> m, early_stop |-> es3]

\* one pass over the training windows: the weights change
train_pass(m, ep) == [m EXCEPT !.weights = ep + 1]

\* History: the smallest val_loss so far and the pass that first met it
record_val_loss(h, ep, current) ==
    IF RLess(current, h.min_val_loss)
    THEN [min_val_loss |-> current, min_epoch |-> ep]
    ELSE h

\* one iteration of fit's loop over range(epochs): a pass, its validation, the callback
fit_epoch(m, es, ep, current) == on_epoch_end(train_pass(m, ep), es, ep, current)

\* fit's loop goes on while passes are left and no callback has stopped it
fit_running(m, ep) == ep < epochs /\ ~m.stop_training

\* validation_split=0.2 holds out the last fifth of the training windows;
\* fit raises ValueError when either part is empty
fit_split_at(n) == RFloor(RMul(RInt(n), RSub(RInt(1), validation_split)))
fit_can_split(n) == fit_split_at(n) # 0 /\ fit_split_at(n) # n

----------------------------------------------------------------------------
(* MinMaxScaler (feature_range (0, 1))                                     *)

NoScaler == [id |-> 0, fits |-> 0, n_samples_seen |-> 0, data_min |-> NaN, data_max |-> NaN]

RMin(a, b) == IF RLess(b, a) THEN b ELSE a
RMax(a, b) == IF RLess(a, b) THEN b ELSE a

\* np.nanmin and np.nanmax of a column without NaN
Values(s) == {s[k] : k \in 1 .. Len(s)}
SeqMin(s) == CHOOSE v \in Values(s) : \A w \in Values(s) : ~RLess(w, v)
SeqMax(s) == CHOOSE v \in Values(s) : \A w \in Values(s) : ~RLess(v, w)

\* MinMaxScaler(): a new, unfitted scaler
MinMaxScaler(id) == [NoScaler EXCEPT !.id = id]

\* _reset(): what an earlier fit learned is forgotten
reset(sc) == [sc EXCEPT !.n_samples_seen = 0, !.data_min = NaN, !.data_max = NaN]

\* partial_fit(X), X with at least one sample
partial_fit(sc, data) ==
    LET first == sc.n_samples_seen = 0
    IN  [sc EXCEPT !.data_min = IF first THEN SeqMin(data) ELSE RMin(@, SeqMin(data)),
                   !.data_max = IF first THEN SeqMax(data) ELSE RMax(@, SeqMax(data)),
                   !.n_samples_seen = @ + Len(data),
                   !.fits = @ + 1]

\* fit(X) = _reset() and partial_fit(X)
fit(sc, data) == partial_fit(reset(sc), data)

\* variant: a zero range is kept as it is
handle_zeros_kept(r) == r

\* _handle_zeros_in_scale: a zero range scales by 1
handle_zeros_in_scale(r) == IF RIsZero(r) THEN RInt(1) ELSE r

scale_(sc) == RDiv(RInt(1), handle_zeros_in_scale(RSub(sc.data_max, sc.data_min)))
min_(sc) == RSub(RInt(0), RMul(sc.data_min, scale_(sc)))

\* transform: X * scale_ + min_
transform(sc, v) == RAdd(RMul(v, scale_(sc)), min_(sc))

\* inverse_transform: (X - min_) / scale_
inverse_transform(sc, v) == RDiv(RSub(v, min_(sc)), scale_(sc))

transform_all(sc, s) == [k \in 1 .. Len(s) |-> transform(sc, s[k])]
inverse_transform_all(sc, s) == [k \in 1 .. Len(s) |-> inverse_transform(sc, s[k])]

----------------------------------------------------------------------------
(* mean_squared_error, mean_absolute_error, r2_score *)

NoEval == [y_pred |-> << >>, y_test_inv |-> << >>, y_pred_inv |-> << >>,
           inverse_by |-> 0, MSE |-> NaN, MAE |-> NaN, R2 |-> NaN]

RSquare(a) == RMul(a, a)
Mean(s) == RDiv(Sum(s), RInt(Len(s)))

\* variant: each true value is paired with the prediction that follows its own
residuals_shifted(y_true, y_pred) ==
    [k \in 1 .. Len(y_true) |-> RSub(y_true[k], y_pred[(k % Len(y_pred)) + 1])]

residuals(y_true, y_pred) == [k \in 1 .. Len(y_true) |-> RSub(y_true[k], y_pred[k])]

mean_squared_error(y_true, y_pred) ==
    LET r == residuals(y_true, y_pred)
    IN  Mean([k \in 1 .. Len(r) |-> RSquare(r[k])])

mean_absolute_error(y_true, y_pred) ==
    LET r == residuals(y_true, y_pred)
    IN  Mean([k \in 1 .. Len(r) |-> RAbs(r[k])])

\* variant: a score over true values without variance is not a number
r2_score_undefined(y_true, y_pred) ==
    LET r == residuals(y_true, y_pred)
        numerator == Sum([k \in 1 .. Len(r) |-> RSquare(r[k])])
        mu == Mean(y_true)
        denominator == Sum([k \in 1 .. Len(y_true) |-> RSquare(RSub(y_true[k], mu))])
    IN  IF Len(y_true) < 2 \/ RIsZero(denominator) THEN NaN
        ELSE RSub(RInt(1), RDiv(numerator, denominator))

\* r2_score: NaN (with a warning) below two samples; 1 - SS_res / SS_tot; with
\* SS_tot = 0 the score is 1.0 when SS_res = 0 and 0.0 otherwise
r2_score(y_true, y_pred) ==
    LET r == residuals(y_true, y_pred)
        numerator == Sum([k \in 1 .. Len(r) |-> RSquare(r[k])])
        mu == Mean(y_true)
        denominator == Sum([k \in 1 .. Len(y_true) |-> RSquare(RSub(y_true[k], mu))])
    IN  IF Len(y_true) < 2 THEN NaN
        ELSE IF ~RIsZero(denominator) THEN RSub(RInt(1), RDiv(numerator, denominator))
        ELSE IF RIsZero(numerator) THEN RInt(1)
        ELSE RInt(0)

----------------------------------------------------------------------------
(* load_crypto_data (1. Data Loading and Preprocessing)                    *)
(*                                                                         *)
(* A processed CSV file is there or not; when it is there it holds one row *)
(* per timestamp, in order, with the price of the asset.                   *)

MissingFile == [exists |-> FALSE, prices |-> << >>]
CsvFile(prices) == [exists |-> TRUE, prices |-> prices]

frame_of(prices) ==
    [k \in 1 .. Len(prices) |->
        [index |-> k - 1, timestamp |-> RInt(k - 1), price |-> prices[k]]]

\* variant: the missing file is caught, reported and answered with None
load_crypto_data_guarded(file) ==
    IF ~file.exists
    THEN [value |-> PyNone, error |-> NoError, printed |-> <<"No data found">>]
    ELSE [value |-> DataFrame(frame_of(file.prices)), error |-> NoError, printed |-> << >>]

\* pd.read_csv(data_path) raises FileNotFoundError for a missing file, and
\* nothing in load_crypto_data catches it
load_crypto_data(file) ==
    IF ~file.exists
    THEN [value |-> PyNone, error |-> "FileNotFoundError", printed |-> << >>]
    ELSE [value |-> DataFrame(frame_of(file.prices)), error |-> NoError, printed |-> << >>]

----------------------------------------------------------------------------
(* train_and_evaluate_model and main: the pieces of their steps            *)

cryptocurrencies == <<"bitcoin", "ethereum", "binancecoin">>

\* variant: the scaler is fitted on the part of the series that becomes training data
fit_data_train(prices) ==
    SubSeq(prices, 1, Max2(1, Len(prices) - RCeil(RMul(test_size, RInt(Len(prices))))))

\* scaler.fit_transform(df[['price']]): the scaler is fitted on the whole column
fit_data(prices) == prices

\* variant: one scaler, made once, serves every call
MinMaxScaler_shared(prev, id) == IF prev.id # 0 THEN prev ELSE MinMaxScaler(id)

\* scaler = MinMaxScaler(): each call makes its own
new_scaler(prev, id) == MinMaxScaler(id)

\* one iteration of fit's loop, the validation loss of pass e being
\* val_loss[e + 1]; once the loop has ended nothing changes
fit_step(st, val_loss) ==
    IF ~fit_running(st.model, st.epoch) THEN st
    ELSE LET current == val_loss[st.epoch + 1]
             r == fit_epoch(st.model, st.early_stop, st.epoch, current)
         IN  [model |-> r.model, early_stop |-> r.early_stop, epoch |-> st.epoch + 1,
              history |-> record_val_loss(st.history, st.epoch, current)]

\* n iterations of fit's loop, one after the other
RECURSIVE fit_steps(_, _, _)
fit_steps(st, n, val_loss) ==
    IF n = 0 \/ st.epoch >= epochs THEN st
    ELSE IF n = 1 THEN fit_step(st, val_loss)
    ELSE fit_steps(fit_steps(st, n \div 2, val_loss), n - (n \div 2), val_loss)

\* history = model.fit(..., epochs=100, callbacks=[early_stop])
fit_loop(m, es, val_loss) ==
    fit_steps([model |-> m, early_stop |-> es, epoch |-> 0, history |-> NoHistory],
              epochs, val_loss)

\* the three metrics, as the dict train_and_evaluate_model returns
metrics_of(y_true, y_pred) ==
    [MSE |-> mean_squared_error(y_true, y_pred),
     MAE |-> mean_absolute_error(y_true, y_pred),
     R2 |-> r2_score(y_true, y_pred)]

\* variant: the mapping is replaced by the newest entry
store_only(results, crypto, metrics) == [k \in {crypto} |-> metrics]

\* variant: the entries share one metrics dict, which the newest asset overwrites
store_aliased(results, crypto, metrics) == [k \in DOMAIN results \cup {crypto} |-> metrics]

\* model_results[crypto] = metrics
store(results, crypto, metrics) ==
    [k \in DOMAIN results \cup {crypto} |-> IF k = crypto THEN metrics ELSE results[k]]

\* variant: a failing asset is skipped and the loop goes on
skip_asset(results, k) == [pc |-> "main", i |-> k + 1, model_results |-> results]

\* no try/except anywhere: an exception leaves main, and main's locals with it
unhandled(results, k) == [pc |-> "aborted", i |-> k, model_results |-> EmptyDict]

----------------------------------------------------------------------------
(* Values of the variables a specification does not use *)

NoDisk == [plots |-> {}, models |-> {}]
NoArg == [fn |-> None]

pipelineVars == <<files, i, model_results, df, scaler, scaled_data, model,
                  early_stop, epoch, history, evalr, disk, stdout, log, nextId>>

PipelineIdle ==
    /\ files = EmptyDict
    /\ i = 0
    /\ model_results = EmptyDict
    /\ df = PyNone
    /\ scaler = NoScaler
    /\ scaled_data = << >>
    /\ model = NoModel
    /\ early_stop = NoCallback
    /\ epoch = 0
    /\ history = NoHistory
    /\ evalr = NoEval
    /\ disk = NoDisk
    /\ stdout = << >>
    /\ log = << >>
    /\ nextId = 1

----------------------------------------------------------------------------
(* Windowing and split of one series: create_sequences on a series and a   *)
(* window length, then the train/test split of the windows it returns.    *)

MaxLen == 7          \* longest series
MaxValue == 1        \* series values are 0 .. MaxValue
MaxSeqLength == 3    \* longest window length

SeriesOfLen(n) == [1 .. n -> 0 .. MaxValue]
WinSeries == UNION {SeriesOfLen(n) : n \in 0 .. MaxLen}

WinInit ==
    /\ pc = "create_sequences"
    /\ arg \in [fn : {"create_sequences"}, data : WinSeries, seq_length : 0 .. MaxSeqLength]
    /\ X = << >>
    /\ y = << >>
    /\ split = NoSplit
    /\ error = NoError
    /\ PipelineIdle

\* X, y = create_sequences(data, seq_length)
WinCreateSequences ==
    /\ pc = "create_sequences"
    /\ LET r == create_sequences(arg.data, arg.seq_length)
       IN  /\ X' = r.X
           /\ y' = r.y
           /\ error' = r.error
           /\ pc' = IF r.error = NoError THEN "train_test_split" ELSE "raised"
    /\ UNCHANGED <<arg, split, pipelineVars>>

\* X_train, X_test, y_train, y_test = train_test_split(X, y, test_size=0.2, shuffle=False)
WinTrainTestSplit ==
    /\ pc = "train_test_split"
    /\ LET r == train_test_split(X, y)
       IN  /\ split' = r
           /\ error' = r.error
           /\ pc' = IF r.error = NoError THEN "returned" ELSE "raised"
    /\ UNCHANGED <<arg, X, y, pipelineVars>>

WinNext == WinCreateSequences \/ WinTrainTestSplit

SpecWin == WinInit /\ [][WinNext]_vars


(* Properties of windowing and split *)

WinN == Len(arg.data)
WinL == arg.seq_length
WinCalled == pc \in {"train_test_split", "returned"} \/ (pc = "raised" /\ split.error # NoError)

\* C1: for N > L, create_sequences(data, L) returns exactly N-L (input, target)
\* pairs; input i is the contiguous slice data[i : i+L], of length L and in the
\* original order, and target i is data[i+L], for every i in [0, N-L).
C1_WindowsAreSlices ==
    (pc # "create_sequences" /\ WinN > WinL) =>
        /\ error # "IndexError"
        /\ Len(X) = WinN - WinL
        /\ Len(y) = WinN - WinL
        /\ \A w \in 0 .. (WinN - WinL - 1) :
              /\ Len(X[w + 1]) = WinL
              /\ \A k \in 1 .. WinL : X[w + 1][k] = arg.data[w + k]
              /\ y[w + 1] = arg.data[w + WinL + 1]

C1_Witness ==
    /\ pc = "train_test_split"
    /\ WinL >= 2
    /\ WinN >= WinL + 3
    /\ Len(X) = WinN - WinL
    /\ \E a, b \in 1 .. Len(X) : X[a] # X[b]

\* C2: for N <= L, the empty series included, create_sequences returns zero
\* pairs and raises nothing.
C2_ShortSeriesNoPairs ==
    (pc # "create_sequences" /\ WinN <= WinL) =>
        /\ X = << >>
        /\ y = << >>
        /\ WinCalled

C2_Witness ==
    /\ pc = "train_test_split"
    /\ WinN > 0
    /\ WinN <= WinL
    /\ X = << >>

\* the positions of a sequence of positions, as a set
Positions(idx) == {idx[k] : k \in 1 .. Len(idx)}

\* C3: the split of the M windows is chronological and unshuffled: the training
\* set is a prefix of the window list and the test set the remaining tail, the
\* two are disjoint and cover all M windows, and every test window index is
\* strictly greater than every training window index.
C3_SplitChronological ==
    pc = "returned" =>
        LET M == Len(X)
            n_train == Len(split.train)
        IN  /\ split.X_train = SubSeq(X, 1, n_train)
            /\ split.y_train = SubSeq(y, 1, n_train)
            /\ split.X_test = SubSeq(X, n_train + 1, M)
            /\ split.y_test = SubSeq(y, n_train + 1, M)
            /\ Positions(split.train) \cap Positions(split.test) = {}
            /\ Positions(split.train) \cup Positions(split.test) = 0 .. (M - 1)
            /\ Len(split.train) + Len(split.test) = M
            /\ \A a \in Positions(split.train), b \in Positions(split.test) : a < b

C3_Witness ==
    /\ pc = "returned"
    /\ Len(split.train) >= 2
    /\ Len(split.test) >= 2
    /\ split.y_train # split.y_test


----------------------------------------------------------------------------
(* Feature engineering of one table: create_time_series_features on a      *)
(* table of up to MaxRows rows.  Prices are 1 or 2 in every combination;   *)
(* further tables hold a zero or a missing price at one or two rows.       *)

MaxRows == 10

CleanPrices(n) == [1 .. n -> {RInt(1), RInt(2)}]

DefectPrices(n) ==
    LET base == [k \in 1 .. n |-> RInt(1 + (k % 2))]
    IN  {[[base EXCEPT ![d1] = v1] EXCEPT ![d2] = v2] :
            d1 \in 1 .. n, d2 \in 1 .. n, v1 \in {RInt(0), NaN}, v2 \in {RInt(0), NaN}}

FeatPrices == UNION {CleanPrices(n) \cup DefectPrices(n) : n \in 0 .. MaxRows}

FeatInit ==
    /\ pc = "create_time_series_features"
    /\ \E prices \in FeatPrices :
          arg = [fn |-> "create_time_series_features", df |-> frame_of(prices)]
    /\ X = << >>
    /\ y = << >>
    /\ split = NoSplit
    /\ error = NoError
    /\ PipelineIdle

\* df = create_time_series_features(df)
FeatCall ==
    /\ pc = "create_time_series_features"
    /\ df' = DataFrame(create_time_series_features(arg.df))
    /\ pc' = "returned"
    /\ UNCHANGED <<arg, files, i, model_results, scaler, scaled_data, X, y, split,
                   model, early_stop, epoch, history, evalr, disk, stdout, error, log, nextId>>

FeatNext == FeatCall

SpecFeat == FeatInit /\ [][FeatNext]_vars

(* Properties of feature engineering *)

FeatN == Len(arg.df)

\* the input has no missing value and no zero price
FeatClean ==
    \A k \in 1 .. FeatN :
        /\ arg.df[k].price # NaN
        /\ ~RIsZero(arg.df[k].price)
        /\ arg.df[k].timestamp # NaN

\* C4: on a table of N rows with no missing values and non-zero prices,
\* create_time_series_features returns exactly the rows at positions >= 7,
\* max(0, N-7) rows, in their original order, each with every derived column
\* populated; a 10-row input yields exactly 3 rows.
C4_FeaturesDropFirstSeven ==
    (pc = "returned" /\ FeatClean) =>
        /\ df.type = "DataFrame"
        /\ Len(df.rows) = Max2(0, FeatN - 7)
        /\ \A k \in 1 .. Len(df.rows) :
              /\ df.rows[k].index = k + 6
              /\ df.rows[k].price = arg.df[k + 7].price
              /\ df.rows[k].timestamp = arg.df[k + 7].timestamp
              /\ \A c \in feature_columns : df.rows[k][c] # NaN
              /\ df.rows[k].price_lag_7 = arg.df[k].price
              /\ df.rows[k].price_lag_1 = arg.df[k + 6].price
        /\ (FeatN = 10 => Len(df.rows) = 3)

C4_Witness ==
    /\ pc = "returned"
    /\ FeatClean
    /\ FeatN = 10
    /\ Len(df.rows) = 3
    /\ df.rows[1].rolling_std_7d # RInt(0)
    /\ df.rows[1].price_change_7d # RInt(0)


----------------------------------------------------------------------------
(* Training of one model: model.fit's loop, one pass at a time, with the   *)
(* validation loss of each pass any of 0 .. MaxLoss.                       *)

MaxLoss == 10

LossValues == {RInt(v) : v \in 0 .. MaxLoss}

FitInit ==
    /\ pc = "fit"
    /\ arg = [fn |-> "fit"]
    /\ model = build_lstm_model(1)
    /\ early_stop = EarlyStopping
    /\ epoch = 0
    /\ history = NoHistory
    /\ files = EmptyDict
    /\ i = 0
    /\ model_results = EmptyDict
    /\ df = PyNone
    /\ scaler = NoScaler
    /\ scaled_data = << >>
    /\ X = << >>
    /\ y = << >>
    /\ split = NoSplit
    /\ evalr = NoEval
    /\ disk = NoDisk
    /\ stdout = << >>
    /\ error = NoError
    /\ log = << >>
    /\ nextId = 2

fitFrame == <<arg, files, i, model_results, df, scaler, scaled_data, X, y, split,
              evalr, disk, stdout, error, log, nextId>>

\* one pass of model.fit
FitEpoch ==
    /\ pc = "fit"
    /\ fit_running(model, epoch)
    /\ \E current \in LossValues :
          LET r == fit_epoch(model, early_stop, epoch, current)
          IN  /\ model' = r.model
              /\ early_stop' = r.early_stop
              /\ history' = record_val_loss(history, epoch, current)
    /\ epoch' = epoch + 1
    /\ UNCHANGED <<pc, fitFrame>>

\* model.fit returns
FitReturn ==
    /\ pc = "fit"
    /\ ~fit_running(model, epoch)
    /\ pc' = "fitted"
    /\ UNCHANGED <<model, early_stop, epoch, history, fitFrame>>

FitNext == FitEpoch \/ FitReturn

SpecFit == FitInit /\ [][FitNext]_vars /\ WF_vars(FitNext)

(* Properties of training *)

\* the passes made since the pass with the smallest validation loss so far
PassesSinceBest == IF epoch = 0 THEN 0 ELSE epoch - (history.min_epoch + 1)

StoppedEarly == pc = "fitted" /\ epoch < epochs

C9_Safe ==
    /\ epoch <= epochs
    /\ PassesSinceBest <= patience
    /\ (PassesSinceBest >= patience => model.stop_training)
    /\ (StoppedEarly => PassesSinceBest = patience)
    /\ (StoppedEarly => model.weights = history.min_epoch + 1)
    /\ (StoppedEarly => model.weights # epoch)

\* C9: training of one model always terminates, after at most 100 passes; it
\* stops before pass 100 exactly when the validation loss has not improved for
\* 10 consecutive passes, and the weights the model then keeps are those of the
\* pass with the best validation loss seen, not those of the last pass.
C9_TrainingStops == [](C9_Safe) /\ <>(pc = "fitted")

C9_Witness ==
    /\ StoppedEarly
    /\ epoch > 2 * patience
    /\ model.weights = epoch - patience
    /\ early_stop.best = history.min_val_loss

----------------------------------------------------------------------------
(* main: the loop over cryptocurrencies, each asset through                *)
(* train_and_evaluate_model, model.save and model_results.                 *)
(*                                                                         *)
(* The processed files are the input: each is missing, too short for the   *)
(* window length, or long enough.  The validation losses of training, the  *)
(* predictions of the trained model and the success of each file write are *)
(* chosen by the environment.                                              *)

MaxFileRows == 43

rising(n) == [k \in 1 .. n |-> RInt(k)]
zigzag(n) == [k \in 1 .. n |-> RInt(k + 3 * ((n + 2 - k) % 3))]
flat(n) == [k \in 1 .. n |-> RInt(5)]

\* rows that leave no window, or too few windows to split and train on
ShortRows == {0, lag_periods, lag_periods + 1} \cup
             {lag_periods + seq_length_default + d : d \in 0 .. 2}

FileChoices ==
    {MissingFile}
    \cup {CsvFile(rising(n)) : n \in ShortRows}
    \cup {CsvFile(zigzag(MaxFileRows)), CsvFile(flat(MaxFileRows - 3))}

\* validation losses of the passes: falling with every pass, or never better
\* than after the first pass
ValLossTraces ==
    {[e \in 1 .. epochs |-> RInt(epochs - e)], [e \in 1 .. epochs |-> RInt(1)]}

\* outputs of the trained model, in scaled units
PredValues == {RInt(0), RInt(1)}

Assets == {cryptocurrencies[k] : k \in 1 .. Len(cryptocurrencies)}
crypto == cryptocurrencies[i]

Entry(step, ok, id) == [crypto |-> crypto, step |-> step, ok |-> ok, id |-> id]
Line(kind, name, metrics) == [kind |-> kind, crypto |-> name, metrics |-> metrics]
NoMetrics == [MSE |-> NaN, MAE |-> NaN, R2 |-> NaN]

Init ==
    /\ pc = "main"
    /\ arg = [fn |-> "main"]
    /\ files \in [Assets -> FileChoices]
    /\ i = 1
    /\ model_results = EmptyDict
    /\ df = PyNone
    /\ scaler = NoScaler
    /\ scaled_data = << >>
    /\ X = << >>
    /\ y = << >>
    /\ split = NoSplit
    /\ model = NoModel
    /\ early_stop = NoCallback
    /\ epoch = 0
    /\ history = NoHistory
    /\ evalr = NoEval
    /\ disk = NoDisk
    /\ stdout = << >>
    /\ error = NoError
    /\ log = << >>
    /\ nextId = 1

\* an exception of the given type leaves the step
Raise(type, step) ==
    LET r == unhandled(model_results, i)
    IN  /\ pc' = r.pc
        /\ i' = r.i
        /\ model_results' = r.model_results
        /\ error' = type
        /\ log' = Append(log, Entry(step, FALSE, 0))

\* the step is done and the next one is reached
Goto(next, step, id) ==
    /\ pc' = next
    /\ log' = Append(log, Entry(step, TRUE, id))
    /\ UNCHANGED <<i, model_results, error>>

\* for crypto in cryptocurrencies: print(...); train_and_evaluate_model(crypto)
MainNextAsset ==
    /\ pc = "main"
    /\ i <= Len(cryptocurrencies)
    /\ stdout' = Append(stdout, Line("training", crypto, NoMetrics))
    /\ Goto("load", "begin", 0)
    /\ UNCHANGED <<arg, files, df, scaler, scaled_data, X, y, split, model, early_stop,
                   epoch, history, evalr, disk, nextId>>

\* df = load_crypto_data(crypto_name)
Load ==
    /\ pc = "load"
    /\ LET r == load_crypto_data(files[crypto])
       IN  /\ stdout' = stdout \o [k \in 1 .. Len(r.printed) |->
                                      Line(r.printed[k], crypto, NoMetrics)]
           /\ IF r.error # NoError
              THEN Raise(r.error, "load_crypto_data") /\ UNCHANGED df
              ELSE Goto("features", "load_crypto_data", 0) /\ df' = r.value
    /\ UNCHANGED <<arg, files, scaler, scaled_data, X, y, split, model, early_stop,
                   epoch, history, evalr, disk, nextId>>

\* df = create_time_series_features(df); df['price'] of None is a TypeError
Features ==
    /\ pc = "features"
    /\ IF df.type # "DataFrame"
       THEN Raise("TypeError", "create_time_series_features") /\ UNCHANGED df
       ELSE /\ Goto("scale", "create_time_series_features", 0)
            /\ df' = DataFrame(create_time_series_features(df.rows))
    /\ UNCHANGED <<arg, files, scaler, scaled_data, X, y, split, model, early_stop,
                   epoch, history, evalr, disk, stdout, nextId>>

\* scaler = MinMaxScaler(); scaled_data = scaler.fit_transform(df[['price']]);
\* a column of no rows is a ValueError
Scale ==
    /\ pc = "scale"
    /\ LET price == column(df.rows, "price")
           fitted == fit(new_scaler(scaler, nextId), fit_data(price))
       IN  IF price = << >>
           THEN /\ Raise("ValueError", "fit_transform")
                /\ scaler' = new_scaler(scaler, nextId)
                /\ UNCHANGED scaled_data
           ELSE /\ Goto("create_sequences", "fit_transform", fitted.id)
                /\ scaler' = fitted
                /\ scaled_data' = transform_all(fitted, price)
    /\ nextId' = nextId + 1
    /\ UNCHANGED <<arg, files, df, X, y, split, model, early_stop, epoch, history,
                   evalr, disk, stdout>>

\* X, y = create_sequences(scaled_data)
Sequences ==
    /\ pc = "create_sequences"
    /\ LET r == create_sequences(scaled_data, seq_length_default)
       IN  /\ X' = r.X
           /\ y' = r.y
           /\ IF r.error # NoError
              THEN Raise(r.error, "create_sequences")
              ELSE Goto("train_test_split", "create_sequences", 0)
    /\ UNCHANGED <<arg, files, df, scaler, scaled_data, split, model, early_stop,
                   epoch, history, evalr, disk, stdout, nextId>>

\* X_train, X_test, y_train, y_test = train_test_split(X, y, test_size=0.2, shuffle=False)
Split ==
    /\ pc = "train_test_split"
    /\ LET r == train_test_split(X, y)
       IN  IF r.error # NoError
           THEN Raise(r.error, "train_test_split") /\ UNCHANGED split
           ELSE Goto("build", "train_test_split", 0) /\ split' = r
    /\ UNCHANGED <<arg, files, df, scaler, scaled_data, X, y, model, early_stop,
                   epoch, history, evalr, disk, stdout, nextId>>

\* model = build_lstm_model(input_shape=...)
Build ==
    /\ pc = "build"
    /\ model' = build_lstm_model(nextId)
    /\ nextId' = nextId + 1
    /\ Goto("fit", "build_lstm_model", nextId)
    /\ UNCHANGED <<arg, files, df, scaler, scaled_data, X, y, split, early_stop,
                   epoch, history, evalr, disk, stdout>>

\* early_stop = EarlyStopping(...); history = model.fit(X_train, y_train, ...);
\* training windows that cannot be split for validation are a ValueError
Fit ==
    /\ pc = "fit"
    /\ IF ~fit_can_split(Len(split.X_train))
       THEN /\ Raise("ValueError", "fit")
            /\ early_stop' = EarlyStopping
            /\ UNCHANGED <<model, epoch, history>>
       ELSE /\ \E val_loss \in ValLossTraces :
                  LET r == fit_loop(model, EarlyStopping, val_loss)
                  IN  /\ model' = r.model
                      /\ early_stop' = r.early_stop
                      /\ epoch' = r.epoch
                      /\ history' = r.history
            /\ Goto("predict", "fit", model.id)
    /\ UNCHANGED <<arg, files, df, scaler, scaled_data, X, y, split, evalr, disk,
                   stdout, nextId>>

\* y_pred = model.predict(X_test)
Predict ==
    /\ pc = "predict"
    /\ \E out \in [1 .. Len(split.X_test) -> PredValues] :
          evalr' = [NoEval EXCEPT !.y_pred = out]
    /\ Goto("evaluate", "predict", model.id)
    /\ UNCHANGED <<arg, files, df, scaler, scaled_data, X, y, split, model, early_stop,
                   epoch, history, disk, stdout, nextId>>

\* y_test_inv, y_pred_inv = scaler.inverse_transform(...); mse, mae, r2
Evaluate ==
    /\ pc = "evaluate"
    /\ LET y_test_inv == inverse_transform_all(scaler, split.y_test)
           y_pred_inv == inverse_transform_all(scaler, evalr.y_pred)
           m == metrics_of(y_test_inv, y_pred_inv)
       IN  evalr' = [evalr EXCEPT !.y_test_inv = y_test_inv, !.y_pred_inv = y_pred_inv,
                                  !.inverse_by = scaler.id,
                                  !.MSE = m.MSE, !.MAE = m.MAE, !.R2 = m.R2]
    /\ Goto("plot", "evaluate", scaler.id)
    /\ UNCHANGED <<arg, files, df, scaler, scaled_data, X, y, split, model, early_stop,
                   epoch, history, disk, stdout, nextId>>

\* plt.savefig(f'../outputs/{crypto_name}_prediction.png'), then the return
Plot ==
    /\ pc = "plot"
    /\ \E written \in BOOLEAN :
          IF written
          THEN /\ disk' = [disk EXCEPT !.plots = @ \cup {crypto}]
               /\ Goto("save", "savefig", 0)
          ELSE /\ Raise("OSError", "savefig")
               /\ UNCHANGED disk
    /\ UNCHANGED <<arg, files, df, scaler, scaled_data, X, y, split, model, early_stop,
                   epoch, history, evalr, stdout, nextId>>

\* model.save(f'../models/{crypto}_lstm_model.h5')
Save ==
    /\ pc = "save"
    /\ \E written \in BOOLEAN :
          IF written
          THEN /\ disk' = [disk EXCEPT !.models = @ \cup
                              {[crypto |-> crypto, id |-> model.id, weights |-> model.weights]}]
               /\ Goto("store", "save", model.id)
          ELSE /\ Raise("OSError", "save")
               /\ UNCHANGED disk
    /\ UNCHANGED <<arg, files, df, scaler, scaled_data, X, y, split, model, early_stop,
                   epoch, history, evalr, stdout, nextId>>

\* model_results[crypto] = metrics, and on to the next asset
Store ==
    /\ pc = "store"
    /\ model_results' = store(model_results, crypto,
                              [MSE |-> evalr.MSE, MAE |-> evalr.MAE, R2 |-> evalr.R2])
    /\ i' = i + 1
    /\ pc' = "main"
    /\ log' = Append(log, Entry("store", TRUE, 0))
    /\ UNCHANGED <<arg, files, df, scaler, scaled_data, X, y, split, model, early_stop,
                   epoch, history, evalr, disk, stdout, error, nextId>>

\* the keys of model_results in the order they were inserted
RECURSIVE items(_, _)
items(results, k) ==
    IF k > Len(cryptocurrencies) THEN << >>
    ELSE (IF cryptocurrencies[k] \in DOMAIN results
          THEN <<Line("performance", cryptocurrencies[k], results[cryptocurrencies[k]])>>
          ELSE << >>) \o items(results, k + 1)

\* for crypto, metrics in model_results.items(): print(...)
PrintResults ==
    /\ pc = "main"
    /\ i > Len(cryptocurrencies)
    /\ stdout' = stdout \o items(model_results, 1)
    /\ pc' = "done"
    /\ UNCHANGED <<arg, files, i, model_results, df, scaler, scaled_data, X, y, split,
                   model, early_stop, epoch, history, evalr, disk, error, log, nextId>>

Next ==
    \/ MainNextAsset
    \/ Load
    \/ Features
    \/ Scale
    \/ Sequences
    \/ Split
    \/ Build
    \/ Fit
    \/ Predict
    \/ Evaluate
    \/ Plot
    \/ Save
    \/ Store
    \/ PrintResults

Spec == Init /\ [][Next]_vars

(* Properties of main and train_and_evaluate_model *)

\* the steps one asset goes through, in the order of the code
StepOrder ==
    <<"begin", "load_crypto_data", "create_time_series_features", "fit_transform",
      "create_sequences", "train_test_split", "build_lstm_model", "fit", "predict",
      "evaluate", "savefig", "save", "store">>

AssetNo(name) == CHOOSE k \in 1 .. Len(cryptocurrencies) : cryptocurrencies[k] = name

\* the log entries of one asset
EntriesOf(name, step) == {n \in 1 .. Len(log) : log[n].crypto = name /\ log[n].step = step}

PerformanceLines == {n \in 1 .. Len(stdout) : stdout[n].kind = "performance"}

\* C5: when no step fails, the assets are processed one at a time in list
\* order, each through load, feature engineering, train/evaluate, model
\* persistence and metrics recording, in that order, before the next asset
\* starts; when the loop has ended model_results holds one metrics entry for
\* each configured asset and no other key.
C5_AssetsInOrder ==
    /\ \A n \in 1 .. Len(log) :
          log[n].ok =>
              /\ log[n].crypto = cryptocurrencies[((n - 1) \div Len(StepOrder)) + 1]
              /\ log[n].step = StepOrder[((n - 1) % Len(StepOrder)) + 1]
    /\ (pc = "main" /\ i > Len(cryptocurrencies)) \/ pc = "done" =>
          /\ error = NoError
          /\ Len(log) = Len(cryptocurrencies) * Len(StepOrder)
          /\ DOMAIN model_results = Assets
          /\ model_results[cryptocurrencies[Len(cryptocurrencies)]] =
                [MSE |-> evalr.MSE, MAE |-> evalr.MAE, R2 |-> evalr.R2]

C5_Witness ==
    /\ pc = "done"
    /\ DOMAIN model_results = Assets
    /\ model_results["bitcoin"] # model_results["ethereum"]
    /\ Cardinality(PerformanceLines) = Len(cryptocurrencies)

\* C6: an exception raised by any step while asset k is processed ends the
\* whole run: no later asset is processed, and the metrics collected for the
\* assets before k are lost, since they are reported only after the loop.
C6_FirstErrorAborts ==
    error # NoError =>
        /\ pc = "aborted"
        /\ ~ENABLED Next
        /\ log[Len(log)].ok = FALSE
        /\ log[Len(log)].crypto = crypto
        /\ \A n \in 1 .. Len(log) : AssetNo(log[n].crypto) <= i
        /\ model_results = EmptyDict
        /\ PerformanceLines = {}

C6_Witness ==
    /\ pc = "aborted"
    /\ i = Len(cryptocurrencies)
    /\ EntriesOf("bitcoin", "store") # {}
    /\ EntriesOf("ethereum", "store") # {}
    /\ log[Len(log)].step = "save"
    /\ PerformanceLines = {}

\* positions of the call of train_and_evaluate_model, from the evaluation on
Evaluated == pc \in {"plot", "save", "store"}

\* the only log entry of the current asset for a step
TheEntry(step) == CHOOSE n \in EntriesOf(crypto, step) : TRUE

\* C7: in one call of train_and_evaluate_model exactly one scaler is made; it
\* is fitted exactly once, on the whole price series, the values that become
\* test data included, before windowing and the split; and that fitted scaler
\* inverse-transforms both the test targets and the predictions before MSE, MAE
\* and R2 are computed.
C7_OneScalerFittedOnAll ==
    Evaluated =>
        LET price == column(df.rows, "price")
            n_test == Len(split.y_test)
        IN  /\ Cardinality(EntriesOf(crypto, "fit_transform")) = 1
            /\ log[TheEntry("fit_transform")].id = scaler.id
            /\ TheEntry("fit_transform") < TheEntry("create_sequences")
            /\ TheEntry("create_sequences") < TheEntry("train_test_split")
            /\ TheEntry("train_test_split") < TheEntry("evaluate")
            /\ scaler.fits = 1
            /\ scaler.n_samples_seen = Len(price)
            /\ scaler.data_min = SeqMin(price)
            /\ scaler.data_max = SeqMax(price)
            /\ \A j \in 1 .. n_test :
                  split.y_test[j] = transform(scaler, price[Len(price) - n_test + j])
            /\ evalr.inverse_by = scaler.id
            /\ log[TheEntry("evaluate")].id = scaler.id
            /\ evalr.y_test_inv = inverse_transform_all(scaler, split.y_test)
            /\ evalr.y_pred_inv = inverse_transform_all(scaler, evalr.y_pred)
            /\ [MSE |-> evalr.MSE, MAE |-> evalr.MAE, R2 |-> evalr.R2] =
                  metrics_of(evalr.y_test_inv, evalr.y_pred_inv)

\* a call whose largest price is met only among the test targets
C7_Witness ==
    /\ pc = "store"
    /\ Len(split.y_test) >= 2
    /\ \E j \in 1 .. Len(split.y_test) : evalr.y_test_inv[j] = scaler.data_max
    /\ \A k \in 1 .. (Len(df.rows) - Len(split.y_test)) :
          RLess(df.rows[k].price, scaler.data_max)
    /\ evalr.y_pred_inv # evalr.y_pred

\* what the code computes from one processed file alone: the price column
\* after feature engineering, the scaler fitted on it, the scaled column, its
\* windows and their split, and the metrics the file allows, one for each
\* output of the trained model
OwnOf(file) ==
    LET price == column(create_time_series_features(frame_of(file.prices)), "price")
        sc == IF price = << >> THEN NoScaler ELSE fit(MinMaxScaler(0), price)
        scaled == IF price = << >> THEN << >> ELSE transform_all(sc, price)
        win == create_sequences(scaled, seq_length_default)
        sp == train_test_split(win.X, win.y)
    IN  [price |-> price, scaler |-> sc, scaled_data |-> scaled, X |-> win.X, y |-> win.y,
         split |-> sp,
         metrics |-> IF sp.error # NoError THEN {}
                     ELSE {metrics_of(inverse_transform_all(sc, sp.y_test),
                                      inverse_transform_all(sc, out)) :
                              out \in [1 .. Len(sp.y_test) -> PredValues]}]

OwnTable == [file \in FileChoices |-> OwnOf(file)]
Own(name) == OwnTable[files[name]]

\* the weights a trained model can hold: one for each course of the validation loss
OwnWeights == {fit_loop(build_lstm_model(0), EarlyStopping, v).model.weights : v \in ValLossTraces}

ObjectIds(name) == {log[n].id : n \in {m \in 1 .. Len(log) : log[m].crypto = name}} \ {0}

LoadedMissing ==
    \E n \in 1 .. Len(log) :
        log[n].step = "load_crypto_data" /\ ~files[log[n].crypto].exists

MessageLines == {n \in 1 .. Len(stdout) : stdout[n].kind = "No data found"}

\* C10, as claimed: for a missing processed file load_crypto_data prints a
\* message and returns None instead of raising, and train_and_evaluate_model
\* hands that None to feature engineering.
C10_MissingFileReturnsNone ==
    LoadedMissing =>
        /\ error # "FileNotFoundError"
        /\ MessageLines # {}
        /\ \/ pc = "features" /\ df = PyNone
           \/ EntriesOf(crypto, "create_time_series_features") # {}

\* C10, amended: for a missing processed file load_crypto_data prints nothing
\* and returns nothing: read_csv's FileNotFoundError leaves load_crypto_data,
\* train_and_evaluate_model and main, and feature engineering is never reached
\* for that asset.
C10_MissingFileRaises ==
    LoadedMissing =>
        /\ pc = "aborted"
        /\ error = "FileNotFoundError"
        /\ log[Len(log)] = Entry("load_crypto_data", FALSE, 0)
        /\ MessageLines = {}
        /\ EntriesOf(crypto, "create_time_series_features") = {}

C10_Witness ==
    /\ pc = "aborted"
    /\ error = "FileNotFoundError"
    /\ i = 2
    /\ ~files["ethereum"].exists
    /\ EntriesOf("bitcoin", "store") # {}

\* the current asset has gone through feature engineering
FeaturesDone ==
    /\ i <= Len(cryptocurrencies)
    /\ \E n \in EntriesOf(crypto, "create_time_series_features") : log[n].ok

\* the series of the current asset after feature engineering is no longer
\* than one window
ShortSeries == FeaturesDone /\ Len(df.rows) <= seq_length_default

\* the current asset has gone through windowing
Windowed == EntriesOf(crypto, "create_sequences") # {}

\* C11, as claimed: with a series of N <= 30 rows after feature engineering
\* windowing raises nothing and yields empty training data, and the run fails
\* only later, inside model training, with no metrics for that asset.
C11_ShortSeriesFailsInTraining ==
    ShortSeries /\ Windowed =>
        /\ \A n \in EntriesOf(crypto, "create_sequences") : log[n].ok
        /\ X = << >> /\ y = << >>
        /\ crypto \notin DOMAIN model_results
        /\ error # NoError => log[Len(log)].step = "fit"

\* C11, amended: with a series of 1 <= N <= 30 rows after feature engineering
\* windowing raises nothing and yields empty X and y; the run fails at the
\* very next step, train_test_split, with a ValueError for the empty training
\* set, before a model is built or trained, and no metrics are produced for
\* that asset.  With N = 0 the run fails before windowing, with the
\* ValueError of fit_transform.
C11_ShortSeriesFailsAtSplit ==
    ShortSeries =>
        /\ \A n \in EntriesOf(crypto, "create_sequences") : log[n].ok
        /\ Windowed => X = << >> /\ y = << >> /\ Len(df.rows) >= 1
        /\ pc \notin {"build", "fit", "predict", "evaluate", "plot", "save", "store"}
        /\ \A n \in EntriesOf(crypto, "train_test_split") :
              /\ ~log[n].ok
              /\ n = Len(log)
              /\ error = "ValueError"
              /\ pc = "aborted"
        /\ Len(df.rows) = 0 =>
              \A n \in EntriesOf(crypto, "fit_transform") :
                  ~log[n].ok /\ n = Len(log) /\ error = "ValueError" /\ pc = "aborted"
        /\ EntriesOf(crypto, "build_lstm_model") = {}
        /\ EntriesOf(crypto, "fit") = {}
        /\ crypto \notin DOMAIN model_results
        /\ PerformanceLines = {}

\* the second asset has exactly one window length of rows and the run has
\* ended at its split
C11_Witness ==
    /\ pc = "aborted"
    /\ i = 2
    /\ ShortSeries
    /\ Len(df.rows) = seq_length_default
    /\ Windowed
    /\ X = << >>
    /\ log[Len(log)] = Entry("train_test_split", FALSE, 0)
    /\ error = "ValueError"

\* writing the plot or the model file of the current asset has failed, after
\* the metrics of that asset were computed
WriteFailed ==
    /\ error = "OSError"
    /\ log[Len(log)].step \in {"savefig", "save"}
    /\ EntriesOf(crypto, "evaluate") # {}

\* the metrics computed for the current asset
ComputedMetrics == [MSE |-> evalr.MSE, MAE |-> evalr.MAE, R2 |-> evalr.R2]

\* C12: when writing the prediction plot or the model file of an asset fails
\* after the metrics of that asset were computed, the metrics are not lost:
\* the caller still holds the metrics dict of the asset.
C12_MetricsSurviveWriteFailure ==
    WriteFailed =>
        /\ crypto \in DOMAIN model_results
        /\ model_results[crypto] = ComputedMetrics

\* the step keeps every entry of model_results as it is
EntriesKept ==
    \A a \in DOMAIN model_results :
        a \in DOMAIN model_results' /\ model_results'[a] = model_results[a]

\* an entry the step adds is the one of the current asset, added by the
\* store that follows its evaluation, and holds the metrics computed for it
EntriesAdded ==
    \A a \in DOMAIN model_results' \ DOMAIN model_results :
        /\ pc = "store"
        /\ a = crypto
        /\ EntriesOf(a, "evaluate") # {}
        /\ EntriesOf(a, "store") = {}
        /\ model_results'[a] = ComputedMetrics

\* C13: while main runs, the metrics record of an asset is written into
\* model_results at most once and only after the evaluation of that asset has
\* finished, and once written neither it nor the entry of any other asset is
\* changed or removed while later assets are processed.
C13_MetricsWrittenOnce ==
    [][pc' # "aborted" => EntriesKept /\ EntriesAdded]_vars

\* the third asset is about to be recorded, with metrics other than those
\* recorded for the first two
C13_Witness ==
    /\ pc = "store"
    /\ i = Len(cryptocurrencies)
    /\ DOMAIN model_results = {"bitcoin", "ethereum"}
    /\ model_results["bitcoin"] # ComputedMetrics
    /\ model_results["ethereum"] # ComputedMetrics
    /\ model_results["bitcoin"] # model_results["ethereum"]

----------------------------------------------------------------------------
(* The scaler on its own: a series is fitted, a value of the fitted range  *)
(* is transformed and the result is transformed back.                      *)

MaxScaleLen == 3
MaxScaleValue == 2
MaxScaleSteps == 4

ScaleValues == {RInt(v) : v \in (-MaxScaleValue) .. MaxScaleValue}
ScaleSeries == UNION {[1 .. n -> ScaleValues] : n \in 1 .. MaxScaleLen}

\* the values min + (max - min) * k / MaxScaleSteps of the fitted range
RangeValues(data) ==
    {RAdd(SeqMin(data), RMul(RSub(SeqMax(data), SeqMin(data)), Rat(k, MaxScaleSteps))) :
        k \in 0 .. MaxScaleSteps}

ScaleInit ==
    /\ pc = "fit"
    /\ \E data \in ScaleSeries : \E v \in RangeValues(data) :
          arg = [fn |-> "MinMaxScaler", data |-> data, v |-> v]
    /\ X = << >>
    /\ y = << >>
    /\ split = NoSplit
    /\ error = NoError
    /\ PipelineIdle

\* scaler = MinMaxScaler(); scaler.fit(data)
ScaleFit ==
    /\ pc = "fit"
    /\ scaler' = fit(new_scaler(scaler, nextId), fit_data(arg.data))
    /\ nextId' = nextId + 1
    /\ pc' = "transform"
    /\ UNCHANGED <<arg, files, i, model_results, df, scaled_data, X, y, split, model,
                   early_stop, epoch, history, evalr, disk, stdout, error, log>>

\* scaled_data = scaler.transform([v])
ScaleTransform ==
    /\ pc = "transform"
    /\ scaled_data' = transform_all(scaler, <<arg.v>>)
    /\ pc' = "inverse_transform"
    /\ UNCHANGED <<arg, files, i, model_results, df, scaler, X, y, split, model,
                   early_stop, epoch, history, evalr, disk, stdout, error, log, nextId>>

\* y_test_inv = scaler.inverse_transform(scaled_data)
ScaleInverse ==
    /\ pc = "inverse_transform"
    /\ evalr' = [evalr EXCEPT !.y_test_inv = inverse_transform_all(scaler, scaled_data),
                              !.inverse_by = scaler.id]
    /\ pc' = "returned"
    /\ UNCHANGED <<arg, files, i, model_results, df, scaler, scaled_data, X, y, split,
                   model, early_stop, epoch, history, disk, stdout, error, log, nextId>>

ScaleNext == ScaleFit \/ ScaleTransform \/ ScaleInverse

SpecScale == ScaleInit /\ [][ScaleNext]_vars

(* Properties of the scaler *)

\* C14: for a scaler fitted on a series, inverse_transform(transform(v)) gives
\* v back for every value v of the fitted range [min, max], also when the
\* fitted series is constant (min = max); the transformed value lies in [0, 1].
C14_ScalingInvertible ==
    /\ pc \in {"inverse_transform", "returned"} =>
          /\ Len(scaled_data) = 1
          /\ ~RLess(scaled_data[1], RInt(0))
          /\ ~RLess(RInt(1), scaled_data[1])
    /\ pc = "returned" => evalr.y_test_inv = <<arg.v>>

\* a constant series of a non-zero value, transformed to 0 and back
C14_Witness ==
    /\ pc = "returned"
    /\ Len(arg.data) >= 2
    /\ scaler.data_min = scaler.data_max
    /\ ~RIsZero(arg.v)
    /\ scaled_data = <<RInt(0)>>
    /\ evalr.y_test_inv = <<arg.v>>

----------------------------------------------------------------------------
(* The metrics on their own: MSE, MAE and R2 of true values and            *)
(* predictions, and of the same pairs in another order.                    *)

MaxTestLen == 3
MaxTruth == 1

\* true values, in original units
TruthArrays == UNION {[1 .. n -> {RInt(v) : v \in 0 .. MaxTruth}] : n \in 1 .. MaxTestLen}

\* predictions: each one right, or off by one
PredArrays(y_true) ==
    {[k \in 1 .. Len(y_true) |-> RAdd(y_true[k], e[k])] :
        e \in [1 .. Len(y_true) -> PredValues]}

\* the orders of n positions
Orders(n) == {p \in [1 .. n -> 1 .. n] : \A a, b \in 1 .. n : p[a] = p[b] => a = b}

\* a[order]
reorder(a, order) == [k \in 1 .. Len(a) |-> a[order[k]]]

MetInit ==
    /\ pc = "evaluate"
    /\ \E y_true \in TruthArrays : \E y_pred \in PredArrays(y_true) :
       \E order \in Orders(Len(y_true)) :
          arg = [fn |-> "metrics", y_test_inv |-> y_true, y_pred_inv |-> y_pred,
                 order |-> order]
    /\ X = << >>
    /\ y = << >>
    /\ split = NoSplit
    /\ error = NoError
    /\ PipelineIdle

\* mse, mae, r2 of the arrays as given
MetEvaluate ==
    /\ pc = "evaluate"
    /\ LET m == metrics_of(arg.y_test_inv, arg.y_pred_inv)
       IN  evalr' = [evalr EXCEPT !.y_test_inv = arg.y_test_inv,
                                  !.y_pred_inv = arg.y_pred_inv,
                                  !.MSE = m.MSE, !.MAE = m.MAE, !.R2 = m.R2]
    /\ pc' = "evaluate_reordered"
    /\ UNCHANGED <<arg, files, i, model_results, df, scaler, scaled_data, X, y, split,
                   model, early_stop, epoch, history, disk, stdout, error, log, nextId>>

\* mse, mae, r2 of both arrays in the other order
MetEvaluateReordered ==
    /\ pc = "evaluate_reordered"
    /\ model_results' = store(model_results, "reordered",
                              metrics_of(reorder(arg.y_test_inv, arg.order),
                                         reorder(arg.y_pred_inv, arg.order)))
    /\ pc' = "returned"
    /\ UNCHANGED <<arg, files, i, df, scaler, scaled_data, X, y, split, model,
                   early_stop, epoch, history, evalr, disk, stdout, error, log, nextId>>

MetNext == MetEvaluate \/ MetEvaluateReordered

SpecMetrics == MetInit /\ [][MetNext]_vars

(* Properties of the metrics *)

\* C15: MSE, MAE and R2 depend only on the multiset of (truth, prediction)
\* pairs: putting the truth array and the prediction array into the same other
\* order leaves all three metrics unchanged.
C15_MetricsOrderInvariant ==
    pc = "returned" => model_results["reordered"] = ComputedMetrics

\* three pairs, not all alike, in an order that moves every one of them
C15_Witness ==
    /\ pc = "returned"
    /\ Len(arg.y_test_inv) = 3
    /\ \A k \in 1 .. 3 : arg.order[k] # k
    /\ reorder(arg.y_test_inv, arg.order) # arg.y_test_inv
    /\ reorder(arg.y_pred_inv, arg.order) # arg.y_pred_inv
    /\ ~RIsZero(evalr.MSE)
    /\ RLess(evalr.R2, RInt(0))
    /\ model_results["reordered"] = ComputedMetrics

\* the metrics of the arrays as given have been computed
MetEvaluated == pc \in {"evaluate_reordered", "returned"}

\* every prediction equals its true value
PerfectPrediction ==
    \A k \in 1 .. Len(evalr.y_test_inv) : evalr.y_pred_inv[k] = evalr.y_test_inv[k]

\* the true test values are all the same
ZeroVariance ==
    \A j, k \in 1 .. Len(evalr.y_test_inv) : evalr.y_test_inv[j] = evalr.y_test_inv[k]

\* C16, as claimed: R2 is 1.0 whenever every prediction equals its true value,
\* and is undefined (NaN or an error, never a finite number) whenever the true
\* test values have zero variance.
C16_R2PerfectOrUndefined ==
    MetEvaluated =>
        /\ PerfectPrediction => evalr.R2 = RInt(1)
        /\ ZeroVariance => evalr.R2 = NaN

\* C16, amended: with at least two test values R2 is 1.0 whenever every
\* prediction equals its true value, also when the true values have zero
\* variance, and it is the finite number 0.0 when the true values have zero
\* variance and some prediction is off; with a single test value R2 is NaN
\* whatever the prediction.  No error is raised.
C16_R2FiniteOnZeroVariance ==
    MetEvaluated =>
        /\ Len(evalr.y_test_inv) < 2 => evalr.R2 = NaN
        /\ Len(evalr.y_test_inv) >= 2 /\ PerfectPrediction => evalr.R2 = RInt(1)
        /\ Len(evalr.y_test_inv) >= 2 /\ ZeroVariance /\ ~PerfectPrediction =>
              evalr.R2 = RInt(0)
        /\ error = NoError

\* three equal true values with one prediction off
C16_Witness ==
    /\ MetEvaluated
    /\ Len(evalr.y_test_inv) = 3
    /\ ZeroVariance
    /\ ~PerfectPrediction
    /\ ~RIsZero(evalr.y_test_inv[1])
    /\ evalr.R2 = RInt(0)
    /\ ~RIsZero(evalr.MSE)

----------------------------------------------------------------------------
(* The time-series analysis notebook: its loader and the cell that loads   *)
(* the selected asset and displays it (Data Loading and Preparation).      *)

MaxAnalysisRows == 5

\* crypto_name = 'bitcoin'
crypto_name == "bitcoin"

\* data.set_index('timestamp', inplace=True)
set_index(frame) ==
    [k \in 1 .. Len(frame) |-> [index |-> frame[k].timestamp, price |-> frame[k].price]]

\* variant: the loader without its try/except
analysis_load_unguarded(file) ==
    IF ~file.exists
    THEN [value |-> PyNone, error |-> "FileNotFoundError", printed |-> << >>]
    ELSE [value |-> DataFrame(set_index(frame_of(file.prices))), error |-> NoError,
          printed |-> << >>]

\* load_crypto_data of the analysis notebook: read_csv and set_index in a
\* try; except FileNotFoundError: a message is printed and None is returned
analysis_load_crypto_data(file) ==
    IF ~file.exists
    THEN [value |-> PyNone, error |-> NoError, printed |-> <<"No data found">>]
    ELSE [value |-> DataFrame(set_index(frame_of(file.prices))), error |-> NoError,
          printed |-> << >>]

\* the engineered-features file of the selected asset: missing, or some rows
AnalysisFiles ==
    {MissingFile} \cup
    {CsvFile(prices) : prices \in UNION {CleanPrices(n) : n \in 0 .. MaxAnalysisRows}}

AnalysisInit ==
    /\ pc = "load"
    /\ arg = [fn |-> "load_crypto_data", crypto_name |-> crypto_name]
    /\ files \in [{crypto_name} -> AnalysisFiles]
    /\ i = 1
    /\ model_results = EmptyDict
    /\ df = PyNone
    /\ scaler = NoScaler
    /\ scaled_data = << >>
    /\ X = << >>
    /\ y = << >>
    /\ split = NoSplit
    /\ model = NoModel
    /\ early_stop = NoCallback
    /\ epoch = 0
    /\ history = NoHistory
    /\ evalr = NoEval
    /\ disk = NoDisk
    /\ stdout = << >>
    /\ error = NoError
    /\ log = << >>
    /\ nextId = 1

\* crypto_data = load_crypto_data(crypto_name)
AnalysisLoad ==
    /\ pc = "load"
    /\ LET r == analysis_load_crypto_data(files[arg.crypto_name])
       IN  /\ stdout' = stdout \o [k \in 1 .. Len(r.printed) |->
                                      Line(r.printed[k], arg.crypto_name, NoMetrics)]
           /\ IF r.error # NoError
              THEN Raise(r.error, "load_crypto_data") /\ UNCHANGED df
              ELSE Goto("info", "load_crypto_data", 0) /\ df' = r.value
    /\ UNCHANGED <<arg, files, scaler, scaled_data, X, y, split, model, early_stop,
                   epoch, history, evalr, disk, nextId>>

\* print(crypto_data.info()); None has no attribute info
AnalysisInfo ==
    /\ pc = "info"
    /\ IF df.type # "DataFrame"
       THEN Raise("AttributeError", "info") /\ UNCHANGED stdout
       ELSE /\ Goto("head", "info", 0)
            /\ stdout' = Append(stdout, Line("info", arg.crypto_name, NoMetrics))
    /\ UNCHANGED <<arg, files, df, scaler, scaled_data, X, y, split, model, early_stop,
                   epoch, history, evalr, disk, nextId>>

\* print("\nFirst few rows:"); print(crypto_data.head())
AnalysisHead ==
    /\ pc = "head"
    /\ Goto("done", "head", 0)
    /\ stdout' = Append(stdout, Line("head", arg.crypto_name, NoMetrics))
    /\ UNCHANGED <<arg, files, df, scaler, scaled_data, X, y, split, model, early_stop,
                   epoch, history, evalr, disk, nextId>>

AnalysisNext == AnalysisLoad \/ AnalysisInfo \/ AnalysisHead

SpecAnalysis == AnalysisInit /\ [][AnalysisNext]_vars

(* Properties of the analysis notebook *)

\* the loader of the analysis notebook has returned or raised
AnalysisLoaded == EntriesOf(crypto_name, "load_crypto_data") # {}

\* C17: in the time-series analysis notebook, for a missing engineered-features
\* file load_crypto_data catches the error, prints a message and returns None;
\* the notebook uses that None with no guard, so crypto_data.info(), the very
\* next operation on the loaded data, is reached with None and the notebook
\* fails there and not in the loader.
C17_AnalysisFailsAtInfo ==
    (~files[crypto_name].exists /\ AnalysisLoaded) =>
        /\ log[1] = Entry("load_crypto_data", TRUE, 0)
        /\ df = PyNone
        /\ stdout = <<Line("No data found", crypto_name, NoMetrics)>>
        /\ pc \in {"info", "aborted"}
        /\ pc = "info" => error = NoError /\ Len(log) = 1
        /\ pc = "aborted" =>
              /\ error = "AttributeError"
              /\ log = <<Entry("load_crypto_data", TRUE, 0), Entry("info", FALSE, 0)>>

C17_Witness ==
    /\ ~files[crypto_name].exists
    /\ pc = "aborted"
    /\ error = "AttributeError"
    /\ df = PyNone
    /\ Len(stdout) = 1
    /\ log[Len(log)].step = "info"

----------------------------------------------------------------------------
(* Series positions behind the windows of windowing and split *)

\* what create_sequences and train_test_split make of the series of the
\* positions 0 .. N-1 themselves: each window and target names the positions
\* it is taken from
PositionWindows == create_sequences(arange(0, WinN), WinL)
PositionSplit == train_test_split(PositionWindows.X, PositionWindows.y)

\* the positions that occur in a training window, as input or as target
TrainingPositions ==
    UNION {Positions(PositionSplit.X_train[w]) : w \in 1 .. Len(PositionSplit.X_train)}
    \cup Positions(PositionSplit.y_train)

TestTargets == Positions(PositionSplit.y_test)

\* the values of the series at a sequence of positions
ValuesAt(pos) == [k \in 1 .. Len(pos) |-> arg.data[pos[k] + 1]]

\* C18: for a series of length N > L and the unshuffled split of its windows,
\* every series position that occurs in a training window, as an input or as
\* the target, is strictly smaller than the position of every test target, so
\* no test target is seen in training; the inputs of the first test window
\* (L >= 1) do lie on positions used in training.
C18_NoTestTargetInTraining ==
    (pc = "returned" /\ WinN > WinL) =>
        /\ \A w \in 1 .. Len(split.X_train) :
              /\ split.X_train[w] = ValuesAt(PositionSplit.X_train[w])
              /\ split.y_train[w] = arg.data[PositionSplit.y_train[w] + 1]
        /\ \A w \in 1 .. Len(split.X_test) :
              /\ split.X_test[w] = ValuesAt(PositionSplit.X_test[w])
              /\ split.y_test[w] = arg.data[PositionSplit.y_test[w] + 1]
        /\ Len(PositionSplit.y_train) = Len(split.y_train)
        /\ Len(PositionSplit.y_test) = Len(split.y_test)
        /\ TestTargets # {}
        /\ \A a \in TrainingPositions, b \in TestTargets : a < b
        /\ WinL >= 1 =>
              /\ Positions(PositionSplit.X_test[1]) # {}
              /\ Positions(PositionSplit.X_test[1]) \subseteq TrainingPositions

\* the last value of the series is the only 1: it is the test target, and no
\* training window holds it, while the test window shares inputs with training
C18_Witness ==
    /\ pc = "returned"
    /\ WinL = MaxSeqLength
    /\ Len(split.y_train) >= 3
    /\ split.y_test = <<1>>
    /\ \A w \in 1 .. Len(split.y_train) :
          /\ split.y_train[w] = 0
          /\ \A k \in 1 .. WinL : split.X_train[w][k] = 0
    /\ split.X_test[1] = split.X_train[Len(split.X_train)]

====
